---- MODULE Spec2Model ----
(***************************************************************************)
(* Model of the story-game HTTP backend (server.js and its sibling files): *)
(* the profanity sanitizer, the narration handler POST /api/continue, the  *)
(* data-store helper sb and the profile and storyboard handlers.           *)
(*                                                                         *)
(* Representation                                                          *)
(*   - a JavaScript string that the code inspects character by character   *)
(*     (sanitizeText, trim, String(drama)) is a sequence of one-character  *)
(*     strings; the code point U+2026 is the single element "U+2026";      *)
(*   - a JavaScript value read from JSON is a record [t, n, s]: t is its   *)
(*     type tag, n its number (or 1/0 for a boolean, or the only element   *)
(*     of a one-element array), s its characters when it is a string;      *)
(*   - prompt text that the code only concatenates (the system message)    *)
(*     is a TLA+ string, concatenated with \o;                             *)
(*   - temperatures are in hundredths (0.55 is 55).                        *)
(***************************************************************************)
EXTENDS Integers, Sequences, FiniteSets, TLC

VARIABLES build, pc, body, calls, reply, res, san, env, db, reqs

vars == <<build, pc, body, calls, reply, res, san, env, db, reqs>>

\* the state of one POST /api/continue request
narration == <<pc, body, calls, reply, res>>

\* the state outside the narration handler: the sanitizer under test, the
\* data-store configuration, the data store and the storyboard requests
backstage == <<san, env, db, reqs>>

-----------------------------------------------------------------------------
(* Bounds of the model                                                     *)

\* longest upstream text, in tokens of TextTokens
MaxTokens == 2
\* longest conversation history of a request
MaxHist == 2
\* largest numeric drama level a request carries (the smallest is -1)
MaxDramaNum == 6

-----------------------------------------------------------------------------
(* JavaScript values                                                       *)

Val(t, n, s) == [t |-> t, n |-> n, s |-> s]
Undef == Val("undef", 0, <<>>)
Null == Val("null", 0, <<>>)
Num(n) == Val("num", n, <<>>)
Bool(b) == Val("bool", IF b THEN 1 ELSE 0, <<>>)
StrV(s) == Val("str", 0, s)
\* the one-element array [n]
Arr(n) == Val("arr", n, <<>>)
\* a plain object {}
Obj == Val("obj", 0, <<>>)

\* ToBoolean: what `if (v)`, `!v` and `v && ...` test
Truthy(v) ==
  CASE v.t = "undef" -> FALSE
    [] v.t = "null" -> FALSE
    [] v.t = "num" -> v.n # 0
    [] v.t = "bool" -> v.n = 1
    [] v.t = "str" -> Len(v.s) > 0
    [] OTHER -> TRUE

Digits == <<"0", "1", "2", "3", "4", "5", "6", "7", "8", "9">>

RECURSIVE NatToStr(_)
NatToStr(n) ==
  IF n < 10 THEN <<Digits[n + 1]>>
  ELSE NatToStr(n \div 10) \o <<Digits[(n % 10) + 1]>>

IntToStr(n) == IF n < 0 THEN <<"-">> \o NatToStr(-n) ELSE NatToStr(n)

\* String(v)
String(v) ==
  CASE v.t = "undef" -> <<"u", "n", "d", "e", "f", "i", "n", "e", "d">>
    [] v.t = "null" -> <<"n", "u", "l", "l">>
    [] v.t = "num" -> IntToStr(v.n)
    [] v.t = "bool" -> IF v.n = 1 THEN <<"t", "r", "u", "e">>
                       ELSE <<"f", "a", "l", "s", "e">>
    [] v.t = "str" -> v.s
    [] v.t = "arr" -> IntToStr(v.n)
    [] OTHER -> <<"[", "o", "b", "j", "e", "c", "t", " ", "O", "b", "j", "e", "c", "t", "]">>

-----------------------------------------------------------------------------
(* Characters                                                              *)

Lowers == <<"a", "b", "c", "d", "e", "f", "g", "h", "i", "j", "k", "l", "m",
            "n", "o", "p", "q", "r", "s", "t", "u", "v", "w", "x", "y", "z">>
Uppers == <<"A", "B", "C", "D", "E", "F", "G", "H", "I", "J", "K", "L", "M",
            "N", "O", "P", "Q", "R", "S", "T", "U", "V", "W", "X", "Y", "Z">>

Range(s) == {s[i] : i \in 1..Len(s)}

\* the lower-case letter of each upper-case letter
LowerOf == [c \in Range(Uppers) |-> Lowers[CHOOSE i \in 1..Len(Uppers) : Uppers[i] = c]]

\* the case folding of the regular expression flag i, on ASCII letters
ToLower(c) == IF c \in DOMAIN LowerOf THEN LowerOf[c] ELSE c

\* \w of a regular expression without the u flag
WordChars == Range(Lowers) \cup Range(Uppers) \cup Range(Digits) \cup {"_"}

IsWordChar(c) == c \in WordChars

\* the white space String.prototype.trim strips
IsSpace(c) == c \in {" ", "\t", "\n", "\r"}

RECURSIVE TrimStart(_)
TrimStart(s) ==
  IF Len(s) > 0 /\ IsSpace(s[1]) THEN TrimStart(Tail(s)) ELSE s

RECURSIVE TrimEnd(_)
TrimEnd(s) ==
  IF Len(s) > 0 /\ IsSpace(s[Len(s)]) THEN TrimEnd(SubSeq(s, 1, Len(s) - 1)) ELSE s

\* text.trim()
Trim(s) == TrimEnd(TrimStart(s))

-----------------------------------------------------------------------------
(* Profanity sanitizer                                                     *)

BAD_WORDS ==
  << <<"f", "u", "c", "k">>,
     <<"s", "h", "i", "t">>,
     <<"b", "i", "t", "c", "h">>,
     <<"b", "a", "s", "t", "a", "r", "d">>,
     <<"a", "s", "s", "h", "o", "l", "e">>,
     <<"d", "i", "c", "k">>,
     <<"p", "u", "s", "s", "y">>,
     <<"c", "u", "n", "t">>,
     <<"s", "l", "u", "t">>,
     <<"w", "h", "o", "r", "e">>,
     <<"f", "a", "g", "g", "o", "t">>,
     <<"r", "e", "t", "a", "r", "d">>,
     <<"m", "o", "t", "h", "e", "r", "f", "u", "c", "k", "e", "r">>,
     <<"f", "u", "c", "k", "e", "r">>,
     <<"f", "u", "c", "k", "i", "n", "g">> >>

\* VOWEL_RE without the i flag: only the lower-case vowels
IsVowelLowerOnly(c) == c \in {"a", "e", "i", "o", "u"}

\* VOWEL_RE = /[aeiou]/gi
IsVowel(c) == ToLower(c) \in {"a", "e", "i", "o", "u"}

\* w.replace(VOWEL_RE, '*')
maskWord(w) == [i \in 1..Len(w) |-> IF IsVowel(w[i]) THEN "*" ELSE w[i]]

\* the pattern without its leading \b
MatchesAtNoLeadingBoundary(s, i, bw) ==
  /\ i + Len(bw) - 1 <= Len(s)
  /\ \A k \in 1..Len(bw) : ToLower(s[i + k - 1]) = bw[k]
  /\ (i + Len(bw) > Len(s) \/ ~IsWordChar(s[i + Len(bw)]))

\* the pattern without its trailing \b
MatchesAtNoTrailingBoundary(s, i, bw) ==
  /\ i + Len(bw) - 1 <= Len(s)
  /\ \A k \in 1..Len(bw) : ToLower(s[i + k - 1]) = bw[k]
  /\ (i = 1 \/ ~IsWordChar(s[i - 1]))

\* whether /\b<bw>\b/i matches s at position i (1-based)
MatchesAt(s, i, bw) ==
  /\ i + Len(bw) - 1 <= Len(s)
  /\ \A k \in 1..Len(bw) : ToLower(s[i + k - 1]) = bw[k]
  /\ (i = 1 \/ ~IsWordChar(s[i - 1]))
  /\ (i + Len(bw) > Len(s) \/ ~IsWordChar(s[i + Len(bw)]))

\* whether position p of s lies inside a match of /\b<bw>\b/gi. The matches
\* of one term cannot overlap (a match starts after a non-word character and
\* consists of letters), so the left-to-right scan of replace finds exactly
\* the positions i at which MatchesAt holds
InMatch(s, p, bw) ==
  \E i \in (IF p > Len(bw) THEN p - Len(bw) + 1 ELSE 1)..p : MatchesAt(s, i, bw)

\* the replace without the g flag: only the first match is masked
ReplaceWordFirstOnly(s, bw) ==
  [p \in 1..Len(s) |->
     IF /\ InMatch(s, p, bw)
        /\ \A i \in 1..Len(s) : (MatchesAt(s, i, bw) /\ i <= p) => p < i + Len(bw)
     THEN maskWord(<<s[p]>>)[1] ELSE s[p]]

\* out.replace(new RegExp(`\\b${bw}\\b`, 'gi'), (m) => maskWord(m))
ReplaceWord(s, bw) ==
  [p \in 1..Len(s) |-> IF InMatch(s, p, bw) THEN maskWord(<<s[p]>>)[1] ELSE s[p]]

\* the loop `for (const bw of BAD_WORDS)`, from the k-th term on
RECURSIVE SanitizeLoop(_, _)
SanitizeLoop(out, k) ==
  IF k > Len(BAD_WORDS) THEN out
  ELSE SanitizeLoop(ReplaceWord(out, BAD_WORDS[k]), k + 1)

\* sanitizeText(text): `if (!text) return text` hands a falsy value back as it
\* is; a string goes through the loop over BAD_WORDS
sanitizeText(text) ==
  IF ~Truthy(text) THEN text ELSE StrV(SanitizeLoop(text.s, 1))

-----------------------------------------------------------------------------
(* Narration: drama tables                                                 *)

\* the switch on drama itself, without String(): only strings match a case
mapDramaToTempNoCoercion(drama) ==
  CASE drama = StrV(<<"1">>) -> 40
    [] drama = StrV(<<"2">>) -> 55
    [] drama = StrV(<<"3">>) -> 70
    [] drama = StrV(<<"4">>) -> 85
    [] drama = StrV(<<"5">>) -> 100
    [] OTHER -> 70

\* mapDramaToTemp(drama), in hundredths
mapDramaToTemp(drama) ==
  LET d == String(drama) IN
  CASE d = <<"1">> -> 40
    [] d = <<"2">> -> 55
    [] d = <<"3">> -> 70
    [] d = <<"4">> -> 85
    [] d = <<"5">> -> 100
    [] OTHER -> 70

\* dramaInstructions(drama) of part_000, part_002 and part_003
dramaInstructions(drama) ==
  LET d == String(drama) IN
  CASE d = <<"1">> -> "Narration style: Very plain and simple. Short sentences. Minimal description."
    [] d = <<"2">> -> "Narration style: Simple narration with occasional description."
    [] d = <<"3">> -> "Narration style: Balanced detail. Moderate description, engaging but not theatrical."
    [] d = <<"4">> -> "Narration style: Dramatic with vivid imagery and suspense."
    [] d = <<"5">> -> "Narration style: Highly dramatic and theatrical. Rich detail and powerful emotions."
    [] OTHER -> "Narration style: Balanced detail, engaging but not theatrical."

\* dramaInstructions(drama) of server.js and part_001
dramaInstructionsV1(drama) ==
  LET d == String(drama) IN
  CASE d = <<"1">> -> "Narration style: Write very plain and simple. Short sentences. Minimal detail. Like an amateur storyteller."
    [] d = <<"2">> -> "Narration style: Simple narration with some description. A beginner storyteller with a bit of flair."
    [] d = <<"3">> -> "Narration style: Balanced detail. Moderate description, engaging but not too theatrical."
    [] d = <<"4">> -> "Narration style: Dramatic with vivid imagery and emotional tone. Add suspense and flair."
    [] d = <<"5">> -> "Narration style: Extremely dramatic and theatrical. Rich detail, powerful emotions, like a professional novelist."
    [] OTHER -> "Narration style: Balanced detail, engaging but not too theatrical."

\* the files whose /api/continue differs: server.js (no sanitizer, the first
\* drama texts) and part_002 (sanitizer, the later drama texts)
Builds == {"server.js", "part_002"}

DramaClause(b, drama) ==
  IF b = "server.js" THEN dramaInstructionsV1(drama) ELSE dramaInstructions(drama)

-----------------------------------------------------------------------------
(* Narration: the request and the prompt                                   *)

\* the template literal baseStyle, after .trim()
baseStyle ==
  "You are the NARRATOR of a text-adventure game.\n\nSTYLE:\n- Present tense.\n"
  \o "- PG-13; no slurs or explicit sexual content.\n"
  \o "- Never mention you are an AI. Never break the fourth wall.\n"
  \o "- Always continue directly from the player's last turn."

\* a mood of the request body: absent, null or a string (a TLA+ string, as
\* the code only tests and interpolates it)
MoodUndef == [t |-> "undef", v |-> ""]
MoodNull == [t |-> "null", v |-> ""]
MoodStr(m) == [t |-> "str", v |-> m]

\* a history of the request body: absent, null or an array of turns
HistUndef == [t |-> "undef", a |-> <<>>]
HistNull == [t |-> "null", a |-> <<>>]
HistArr(a) == [t |-> "arr", a |-> a]

\* the destructuring defaults { history = [], userTurn = '', mood = 'default',
\* drama = 3 }: a default replaces an absent field only
HistoryOf(b) == IF b.history.t = "undef" THEN HistArr(<<>>) ELSE b.history
UserTurnOf(b) == IF b.userTurn.t = "undef" THEN StrV(<<>>) ELSE b.userTurn
MoodOf(b) == IF b.mood.t = "undef" THEN MoodStr("default") ELSE b.mood
DramaOf(b) == IF b.drama.t = "undef" THEN Num(3) ELSE b.drama

MoodClause(m) ==
  "\n\nMood/Genre: This is a " \o m \o " story. Match your narration to " \o m
  \o " conventions, tone, and atmosphere."

\* the mood test without the sentinel: every non-empty mood adds the clause
styleMoodNoSentinel(mood) ==
  IF mood.t = "str" /\ mood.v # "" THEN MoodClause(mood.v) ELSE ""

\* (mood && mood !== 'default') ? `...` : ''
styleMood(mood) ==
  IF mood.t = "str" /\ mood.v # "" /\ mood.v # "default" THEN MoodClause(mood.v) ELSE ""

styleDrama(b, drama) == "\n\n" \o DramaClause(b, drama)

SystemMessage(b, mood, drama) ==
  [role |-> "system", content |-> baseStyle \o styleMood(mood) \o styleDrama(b, drama)]

\* the messages with the sanitizer run over the history and the user turn
MessagesSanitized(b, history, userTurn, mood, drama) ==
  <<SystemMessage(b, mood, drama)>>
    \o [i \in 1..Len(history.a) |->
          [role |-> history.a[i].role, content |-> SanitizeLoop(history.a[i].content, 1)]]
    \o <<[role |-> "user", content |-> sanitizeText(userTurn)]>>

\* [ system, ...history, { role: 'user', content: userTurn } ]
Messages(b, history, userTurn, mood, drama) ==
  <<SystemMessage(b, mood, drama)>> \o history.a \o <<[role |-> "user", content |-> userTurn]>>

MaxOutputTokens == 220

Payload(b, rq) ==
  [model |-> "gpt-4o-mini",
   input |-> Messages(b, HistoryOf(rq), UserTurnOf(rq), MoodOf(rq), DramaOf(rq)),
   max_output_tokens |-> MaxOutputTokens,
   temperature |-> mapDramaToTemp(DramaOf(rq))]

\* `...history` throws a TypeError unless history is iterable
SpreadThrows(rq) == HistoryOf(rq).t # "arr"

-----------------------------------------------------------------------------
(* Narration: the upstream body and the extracted text                     *)

\* The body of the completion service's reply, as JSON.parse sees it: parse
\* is "fail" for text that is not JSON; data.t is "null" for the JSON value
\* null, "scalar" for a JSON number, string or boolean, "object" for a JSON
\* object whose field output_text is data.output_text and whose field output
\* has the shape data.output:
\*   "undef"        no field          "null"          output: null
\*   "zero"         output: 0         "num"           output: 5
\*   "empty"        output: []        "nullItem"      output: [null]
\*   "noContent"    output: [{}]      "emptyContent"  output: [{content: []}]
\*   "nullPart"     output: [{content: [null]}]
\*   "part"         output: [{content: [{text: data.nested}]}]
Data(t, ot, out, nested) == [t |-> t, output_text |-> ot, output |-> out, nested |-> nested]
NoData == Data("null", Undef, "undef", Undef)
JsonFail == [parse |-> "fail", data |-> NoData]
Json(d) == [parse |-> "ok", data |-> d]
NoRaw == [parse |-> "none", data |-> NoData]

OutShapes == {"undef", "null", "zero", "num", "empty", "nullItem", "noContent",
              "emptyContent", "nullPart", "part"}

\* the character the handler starts text with
Ellipsis == StrV(<<"U+2026">>)

FallbackSentence ==
  <<"T", "h", "e", " ", "n", "a", "r", "r", "a", "t", "o", "r", " ", "h",
    "e", "s", "i", "t", "a", "t", "e", "s", ",", " ", "t", "h", "e", "n",
    " ", "c", "o", "n", "t", "i", "n", "u", "e", "s", " ", "c", "a", "u",
    "t", "i", "o", "u", "s", "l", "y", ".", " ", "(", "F", "a", "l", "l",
    "b", "a", "c", "k", ")">>

ServerFallback ==
  <<"(", "S", "e", "r", "v", "e", "r", " ", "f", "a", "l", "l", "b", "a",
    "c", "k", ")">>

\* data.output_text; a property read of a number, string or boolean is undefined
OutputText(d) == IF d.t = "object" THEN d.output_text ELSE Undef

\* data.output, as the condition `data.output && ...` tests it
OutputTruthy(d) == d.t = "object" /\ d.output \notin {"undef", "null", "zero"}

\* data.output[0]?.content?.[0]?.text
NestedText(d) == IF d.t = "object" /\ d.output = "part" THEN d.nested ELSE Undef

\* let text = '...'; try { data = JSON.parse(raw); if (data.output_text) ...
\* else if (data.output && ...) ... } catch {}: a body that is not JSON and
\* the JSON value null (data.output_text throws a TypeError) leave text alone
Extract(raw) ==
  IF raw.parse # "ok" \/ raw.data.t = "null" THEN Ellipsis
  ELSE IF Truthy(OutputText(raw.data)) THEN OutputText(raw.data)
  ELSE IF OutputTruthy(raw.data) /\ Truthy(NestedText(raw.data)) THEN NestedText(raw.data)
  ELSE Ellipsis

\* `text.trim()` in `if (!text || text.trim() === '')` throws a TypeError
\* when text is truthy and not a string
TrimThrows(text) == Truthy(text) /\ text.t # "str"

\* the fallback test without its trim(): a blank text is kept
WithFallbackNoTrim(text) ==
  IF ~Truthy(text) THEN StrV(FallbackSentence) ELSE text

\* if (!text || text.trim() === '') text = "The narrator hesitates, ..."
WithFallback(text) ==
  IF ~Truthy(text) \/ Trim(text.s) = <<>> THEN StrV(FallbackSentence) ELSE text

\* `text = sanitizeText(text)`: a line of part_002, absent from server.js
Outgoing(b, text) == IF b = "server.js" THEN text ELSE sanitizeText(text)

-----------------------------------------------------------------------------
(* Narration: responses                                                    *)

\* a response: keys are the fields of its JSON object; error.msg is the
\* literal text of the error and error.raw the body interpolated after it
Response(status, keys, msg, raw, text) ==
  [status |-> status, keys |-> keys, error |-> [msg |-> msg, raw |-> raw], text |-> text]

\* res.json({ text })
Success(text) == Response(200, {"text"}, "", NoRaw, text)

\* the upstream error answered without the body of the reply
OpenAIErrorNoRaw(raw) == Response(500, {"error"}, "OpenAI error: ", NoRaw, Undef)

\* res.status(500).json({ error: `OpenAI error: ${raw}` })
OpenAIError(raw) == Response(500, {"error"}, "OpenAI error: ", raw, Undef)

\* the outer catch answering with the error alone
ServerErrorNoText == Response(500, {"error"}, "Server error", NoRaw, Undef)

\* res.status(500).json({ error: 'Server error', text: "(Server fallback)" })
ServerError == Response(500, {"error", "text"}, "Server error", NoRaw, StrV(ServerFallback))

\* the handler from `const raw = await response.text()` to its return
OnResolve(b, ok, raw) ==
  IF ~ok THEN OpenAIError(raw)
  ELSE IF TrimThrows(Extract(raw)) THEN ServerError
  ELSE Success(Outgoing(b, WithFallback(Extract(raw))))

-----------------------------------------------------------------------------
(* Inputs                                                                  *)

\* the pieces upstream texts are built from: a banned term, the same term in
\* mixed case, a blank, and a letter that makes a longer word of its neighbour
TextTokens ==
  { <<"s", "h", "i", "t">>, <<"S", "h", "I", "t">>, <<" ">>, <<"a">> }

RECURSIVE TextsOf(_)
TextsOf(n) ==
  IF n = 0 THEN {<<>>}
  ELSE TextsOf(n - 1) \cup {t \o k : t \in TextsOf(n - 1), k \in TextTokens}

Texts == TextsOf(MaxTokens)

\* the values a text field of the upstream body may hold
LeafVals ==
  {Undef, Null, Num(0), Num(5), Bool(TRUE), Bool(FALSE), Arr(1), Obj}
    \cup {StrV(t) : t \in Texts}

Bodies ==
  {JsonFail, Json(NoData), Json(Data("scalar", Undef, "undef", Undef))}
    \cup {Json(Data("object", v, "undef", Undef)) : v \in LeafVals}
    \cup {Json(Data("object", Undef, o, Undef)) : o \in OutShapes \ {"part"}}
    \cup {Json(Data("object", Undef, "part", v)) : v \in LeafVals}
    \cup {Json(Data("object", StrV(<<"a">>), "part", StrV(<<"s", "h", "i", "t">>)))}

\* the bodies of replies with a non-success status
ErrorBodies ==
  {JsonFail, Json(NoData), Json(Data("object", Undef, "undef", Undef))}

Dramas ==
  {Undef, Null, Bool(TRUE), Arr(1), Obj}
    \cup {Num(n) : n \in -1..MaxDramaNum}
    \cup {StrV(<<Digits[i]>>) : i \in 1..Len(Digits)}
    \cup {StrV(<<>>), StrV(<<"x">>), StrV(<<"0", "1">>), StrV(<<" ", "1">>),
          StrV(<<"1", "0">>)}

Moods ==
  {MoodUndef, MoodNull, MoodStr(""), MoodStr("default"), MoodStr("Default"),
   MoodStr("noir")}

Turns ==
  {[role |-> "assistant", content |-> <<"H", "i">>],
   [role |-> "user", content |-> <<"b", "i", "t", "c", "h">>]}

RECURSIVE HistoriesOf(_)
HistoriesOf(n) ==
  IF n = 0 THEN {<<>>}
  ELSE HistoriesOf(n - 1) \cup {Append(h, t) : h \in HistoriesOf(n - 1), t \in Turns}

Histories == {HistUndef, HistNull} \cup {HistArr(h) : h \in HistoriesOf(MaxHist)}

UserTurns == {Undef, Null, StrV(<<>>), StrV(<<"a", " ", "b", "i", "t", "c", "h">>)}

Request(h, u, m, d) == [history |-> h, userTurn |-> u, mood |-> m, drama |-> d]

\* the request bodies: every drama with and without a mood, every mood with
\* and without a valid drama, every history with every user turn
Requests ==
  {Request(HistUndef, Undef, m, d) : m \in {MoodUndef, MoodStr("noir")}, d \in Dramas}
    \cup {Request(HistUndef, Undef, m, d) : m \in Moods, d \in {Undef, StrV(<<"9">>)}}
    \cup {Request(h, u, m, Num(2)) : h \in Histories, u \in UserTurns,
                                     m \in {MoodUndef, MoodStr("noir")}}

-----------------------------------------------------------------------------
(* POST /api/continue                                                      *)
\* build   the file that is running
\* pc      where the handler of the request is: "idle" before it runs,
\*         "fetching" while it awaits the completion service, "done"
\* body    req.body
\* calls   the payloads sent to the completion service, in order
\* reply   what came back from the completion service: nothing yet ("none"),
\*         a rejected fetch ("rejected"), or a reply with its status and body
\* res     the responses written for the request, in order

\* san, env, db, reqs while only a narration request is served
NoSan == [pc |-> "off"]
NoEnv == [url |-> TRUE, role |-> TRUE, key |-> TRUE]
NoDb == [likes |-> 0, dislikes |-> 0, rows |-> <<>>]

NoReply == [kind |-> "none", ok |-> FALSE, raw |-> NoRaw]
Replied(ok, raw) == [kind |-> "replied", ok |-> ok, raw |-> raw]

Init ==
  /\ build \in Builds
  /\ body \in Requests
  /\ pc = "idle"
  /\ calls = <<>>
  /\ reply = NoReply
  /\ res = <<>>
  /\ san = NoSan
  /\ env = NoEnv
  /\ db = NoDb
  /\ reqs = <<>>

\* the handler up to `await fetch(...)`, the payload built and sent
ContinueSend ==
  /\ pc = "idle"
  /\ ~SpreadThrows(body)
  /\ calls' = Append(calls, Payload(build, body))
  /\ pc' = "fetching"
  /\ UNCHANGED <<build, body, reply, res>>
  /\ UNCHANGED backstage

\* the handler when building the messages throws: the outer catch answers
ContinueThrow ==
  /\ pc = "idle"
  /\ SpreadThrows(body)
  /\ res' = Append(res, ServerError)
  /\ pc' = "done"
  /\ UNCHANGED <<build, body, calls, reply>>
  /\ UNCHANGED backstage

\* fetch, or reading the reply's body, rejects: the outer catch answers
FetchReject ==
  /\ pc = "fetching"
  /\ reply' = [kind |-> "rejected", ok |-> FALSE, raw |-> NoRaw]
  /\ res' = Append(res, ServerError)
  /\ pc' = "done"
  /\ UNCHANGED <<build, body, calls>>
  /\ UNCHANGED backstage

\* the completion service replies with a success status and the body raw;
\* the handler runs to its return
FetchOk ==
  /\ pc = "fetching"
  /\ \E raw \in Bodies :
       /\ reply' = Replied(TRUE, raw)
       /\ res' = Append(res, OnResolve(build, TRUE, raw))
  /\ pc' = "done"
  /\ UNCHANGED <<build, body, calls>>
  /\ UNCHANGED backstage

\* the completion service replies with a non-success status and the body raw
FetchNotOk ==
  /\ pc = "fetching"
  /\ \E raw \in ErrorBodies :
       /\ reply' = Replied(FALSE, raw)
       /\ res' = Append(res, OnResolve(build, FALSE, raw))
  /\ pc' = "done"
  /\ UNCHANGED <<build, body, calls>>
  /\ UNCHANGED backstage

Next == ContinueSend \/ ContinueThrow \/ FetchReject \/ FetchOk \/ FetchNotOk

Spec == Init /\ [][Next]_vars

-----------------------------------------------------------------------------
(* Properties of POST /api/continue                                        *)

\* the reply of the completion service had a success status
RepliedOk == reply.kind = "replied" /\ reply.ok

\* the reply of the completion service had a non-success status
RepliedNotOk == reply.kind = "replied" /\ ~reply.ok

\* some whole-word occurrence of a banned term is left in s
HasBannedWord(s) ==
  \E k \in 1..Len(BAD_WORDS) : \E i \in 1..Len(s) : MatchesAt(s, i, BAD_WORDS[k])

\* C1: every success response carries a text field that is a string with at
\* least one character that is not white space, whatever the upstream body
C1_SuccessTextNonEmpty ==
  \A i \in 1..Len(res) :
    res[i].status = 200 =>
      /\ "text" \in res[i].keys
      /\ res[i].text.t = "str"
      /\ Trim(res[i].text.s) # <<>>

\* C1 witness: a success response to an upstream text that is a single blank
C1_Witness ==
  /\ pc = "done"
  /\ RepliedOk
  /\ reply.raw = Json(Data("object", StrV(<<" ">>), "undef", Undef))
  /\ res[1].status = 200

\* C2: the text of a success response is the sanitizer's result on the
\* extracted (or fallback) text, and holds no whole-word banned term
C2_TextIsSanitized ==
  \A i \in 1..Len(res) :
    res[i].status = 200 =>
      /\ res[i].text = sanitizeText(WithFallback(Extract(reply.raw)))
      /\ ~HasBannedWord(res[i].text.s)

\* C3: a success reply whose body is not JSON, or has neither output_text nor
\* the nested text, is answered with the sanitized fallback sentence
C3_FallbackWhenNoText ==
  (/\ pc = "done"
   /\ RepliedOk
   /\ \/ reply.raw.parse = "fail"
      \/ /\ reply.raw.data.t = "object"
         /\ OutputText(reply.raw.data) = Undef
         /\ NestedText(reply.raw.data) = Undef)
    => res = <<Success(sanitizeText(StrV(FallbackSentence)))>>

\* C4: a reply with a non-success status is answered once, with status 500
\* and an error that carries the body of the reply, and the completion
\* service has been called exactly once
C4_UpstreamErrorOnce500 ==
  (pc = "done" /\ RepliedNotOk) =>
    /\ Len(res) = 1
    /\ res[1].status = 500
    /\ "error" \in res[1].keys
    /\ res[1].error.msg = "OpenAI error: "
    /\ res[1].error.raw = reply.raw
    /\ Len(calls) = 1

\* C4 witness: a non-success reply whose body is not JSON has been answered
C4_Witness ==
  /\ pc = "done"
  /\ RepliedNotOk
  /\ reply.raw = JsonFail
  /\ Len(res) = 1

\* C5: every failure response contains a text field
C5_FailureHasText ==
  \A i \in 1..Len(res) : res[i].status # 200 => "text" \in res[i].keys

\* C5 as amended: a failure response contains a text field, "(Server
\* fallback)", exactly when it comes from the outer catch; the response to a
\* non-success upstream status holds the error alone
C5_FailureTextOnlyFromCatch ==
  \A i \in 1..Len(res) :
    res[i].status # 200 =>
      /\ res[i].status = 500
      /\ "error" \in res[i].keys
      /\ ("text" \in res[i].keys) <=> ~RepliedNotOk
      /\ ("text" \in res[i].keys) => res[i].text = StrV(ServerFallback)

\* C5 witness: a rejected fetch answered by the outer catch
C5_Witness ==
  /\ pc = "done"
  /\ reply.kind = "rejected"
  /\ Len(res) = 1
  /\ res[1].status = 500

\* C6: a success reply is always answered with a success response, however
\* its body is malformed
C6_MalformedRecovered ==
  (pc = "done" /\ RepliedOk) => (Len(res) = 1 /\ res[1].status = 200)

TempTable == <<40, 55, 70, 85, 100>>

\* the temperature of the table for a drama value: that of level k when the
\* string form is the digit k of 1..5, that of level 3 otherwise
TableTemp(drama) ==
  IF \E k \in 1..5 : String(drama) = <<Digits[k + 1]>>
  THEN TempTable[CHOOSE k \in 1..5 : String(drama) = <<Digits[k + 1]>>]
  ELSE 70

\* C7: the temperature sent upstream is the table's for the string form of
\* the request's drama, 0.7 for anything else, and does not decrease with
\* the level
C7_TemperatureTable ==
  /\ \A a, b \in 1..5 : a <= b => mapDramaToTemp(Num(a)) <= mapDramaToTemp(Num(b))
  /\ \A i \in 1..Len(calls) :
       /\ calls[i].temperature = TableTemp(body.drama)
       /\ calls[i].temperature \in Range(TempTable)

\* C7 witness: a request with the number 4 as drama has been sent at 0.85
C7_Witness ==
  /\ pc = "fetching"
  /\ body.drama = Num(4)
  /\ calls[1].temperature = 85

\* C8: for a drama that is none of "1".."5", the system message is the one
\* of level 3
C8_DefaultInstructionIsLevel3 ==
  \A i \in 1..Len(calls) :
    (\A k \in 1..5 : String(DramaOf(body)) # <<Digits[k + 1]>>) =>
      calls[i].input[1].content = SystemMessage(build, MoodOf(body), Num(3)).content

\* C9: the system message is the base style, then the mood clause exactly
\* when the request's mood is a non-empty string other than "default", then
\* the drama clause
C9_MoodClauseIff ==
  \A i \in 1..Len(calls) :
    LET hasMood == body.mood.t = "str" /\ body.mood.v \notin {"", "default"}
        drama == "\n\n" \o DramaClause(build, DramaOf(body))
    IN  /\ calls[i].input[1].role = "system"
        /\ hasMood => calls[i].input[1].content = baseStyle \o MoodClause(body.mood.v) \o drama
        /\ ~hasMood => calls[i].input[1].content = baseStyle \o drama

\* C9 witness: a request whose mood is "default" has been sent
C9_Witness ==
  /\ pc = "fetching"
  /\ body.mood = MoodStr("default")
  /\ Len(calls) = 1

\* C10: the messages sent are the system message, the history of the request
\* entry by entry (none when it is absent), and the user message with the
\* request's userTurn ('' when absent), nothing sanitized
C10_MessageSequence ==
  \A i \in 1..Len(calls) :
    LET msgs == calls[i].input
        hist == IF body.history.t = "arr" THEN body.history.a ELSE <<>>
        turn == IF body.userTurn = Undef THEN StrV(<<>>) ELSE body.userTurn
    IN  /\ Len(msgs) = Len(hist) + 2
        /\ msgs[1].role = "system"
        /\ \A k \in 1..Len(hist) : msgs[k + 1] = hist[k]
        /\ msgs[Len(msgs)] = [role |-> "user", content |-> turn]

\* C10 witness: a request with two history entries and a user turn that
\* holds a banned term has been sent by the file that has the sanitizer
C10_Witness ==
  /\ pc = "fetching"
  /\ build = "part_002"
  /\ body.history.t = "arr"
  /\ Len(body.history.a) = 2
  /\ HasBannedWord(body.history.a[2].content)
  /\ body.userTurn.t = "str"
  /\ HasBannedWord(body.userTurn.s)
  /\ Len(calls) = 1

-----------------------------------------------------------------------------
(* The sanitizer on its own: sanitizeText applied to a drawn input         *)

\* longest sanitizer input, in tokens of SanTokens
MaxSanTokens == 3

\* the pieces the inputs are made of: a banned term in mixed case, the pieces
\* that turn it into the longer terms "fucker" and "motherfucker" or into a
\* word that is no term, a blank, a word character that is no letter, and
\* the mask character itself
SanTokens ==
  { <<"F", "U", "c", "k">>, <<"e", "r">>, <<"m", "o", "t", "h", "e", "r">>,
    <<" ">>, <<"_">>, <<"*">> }

RECURSIVE SanTextsOf(_)
SanTextsOf(n) ==
  IF n = 0 THEN {<<>>}
  ELSE LET shorter == SanTextsOf(n - 1)
       IN  shorter \cup {t \o u : t \in shorter, u \in SanTokens}

\* the arguments sanitizeText is called with: absent values, strings, and
\* numbers (a JSON field may hold one)
SanInputs ==
  {Undef, Null, Num(0), Num(5)} \cup {StrV(t) : t \in SanTextsOf(MaxSanTokens)}

\* a truthy argument that is no string has no replace method: `out.replace`
\* throws a TypeError in the first round of the loop; a falsy argument is
\* handed back before the loop
SanitizeThrowsNoGuard(text) == text.t # "str"

\* sanitizeText(text) throws
SanitizeThrows(text) == Truthy(text) /\ text.t # "str"

\* the loop `for (const bw of BAD_WORDS)` over the list in the order `order`
\* (a permutation of the indices of BAD_WORDS), from its k-th place on
RECURSIVE SanitizeIn(_, _, _)
SanitizeIn(order, out, k) ==
  IF k > Len(order) THEN out
  ELSE SanitizeIn(order, ReplaceWord(out, BAD_WORDS[order[k]]), k + 1)

\* a permutation of the indices of BAD_WORDS: the list backwards
Reversed == [k \in 1..Len(BAD_WORDS) |-> Len(BAD_WORDS) + 1 - k]

\* the orders tried: permutations of the indices of BAD_WORDS that put the
\* terms of Nested (the terms that contain the term "fuck") in every relative
\* order
Orders ==
  LET Swapped(i, j) ==
        [k \in 1..Len(BAD_WORDS) |-> IF k = i THEN j ELSE IF k = j THEN i ELSE k]
      Rotated(r) == [k \in 1..Len(BAD_WORDS) |-> ((k - 1 + r) % Len(BAD_WORDS)) + 1]
      Nested == {k \in 1..Len(BAD_WORDS) :
                   \E i \in 1..Len(BAD_WORDS[k]) :
                     /\ i + 3 <= Len(BAD_WORDS[k])
                     /\ SubSeq(BAD_WORDS[k], i, i + 3) = BAD_WORDS[1]}
  IN  {Reversed, Rotated(1), Rotated(13)}
        \cup {Swapped(p[1], p[2]) : p \in {q \in Nested \X Nested : q[1] < q[2]}}

\* san.pc     "start" before the call, "once" after sanitizeText(text),
\*            "threw" when that call throws, "twice" after sanitizeText of the
\*            result, "reordered" after the loop has run in another order
\* san.text   the argument
\* san.outs   the results, in the order they were computed
\* san.order  the order of the banned terms of the last run
SanState(p, text, outs, order) ==
  [pc |-> p, text |-> text, outs |-> outs, order |-> order]

SanInit ==
  /\ \E text \in SanInputs : san = SanState("start", text, <<>>, <<>>)
  /\ build = "part_002"
  /\ pc = "absent"
  /\ body = Undef
  /\ calls = <<>>
  /\ reply = NoReply
  /\ res = <<>>
  /\ env = NoEnv
  /\ db = NoDb
  /\ reqs = <<>>

\* sanitizeText(text) returns
SanCall ==
  /\ san.pc = "start"
  /\ ~SanitizeThrows(san.text)
  /\ san' = SanState("once", san.text, <<sanitizeText(san.text)>>, <<>>)
  /\ UNCHANGED <<build, narration, env, db, reqs>>

\* sanitizeText(text) throws
SanThrow ==
  /\ san.pc = "start"
  /\ SanitizeThrows(san.text)
  /\ san' = SanState("threw", san.text, <<>>, <<>>)
  /\ UNCHANGED <<build, narration, env, db, reqs>>

\* sanitizeText applied to its own result
SanRecall ==
  /\ san.pc = "once"
  /\ ~SanitizeThrows(san.outs[1])
  /\ san' = SanState("twice", san.text,
                     Append(san.outs, sanitizeText(san.outs[1])), <<>>)
  /\ UNCHANGED <<build, narration, env, db, reqs>>

\* the same argument sanitized with the banned terms in another order
SanReorder ==
  /\ san.pc = "once"
  /\ san.text.t = "str"
  /\ \E order \in Orders :
       san' = SanState("reordered", san.text,
                       Append(san.outs, StrV(SanitizeIn(order, san.text.s, 1))),
                       order)
  /\ UNCHANGED <<build, narration, env, db, reqs>>

SanNext == SanCall \/ SanThrow \/ SanRecall \/ SanReorder

SpecSan == SanInit /\ [][SanNext]_vars

-----------------------------------------------------------------------------
(* Properties of sanitizeText                                              *)

\* the ten vowel characters
VowelChars == {"a", "e", "i", "o", "u", "A", "E", "I", "O", "U"}

\* positions a..b of x are a whole word: a longest run of letters, digits
\* and underscores
IsWholeWord(x, a, b) ==
  /\ 1 <= a /\ a <= b /\ b <= Len(x)
  /\ \A p \in a..b : IsWordChar(x[p])
  /\ (a = 1 \/ ~IsWordChar(x[a - 1]))
  /\ (b = Len(x) \/ ~IsWordChar(x[b + 1]))

\* w is a banned term, in any letter case
IsBannedTerm(w) ==
  \E k \in 1..Len(BAD_WORDS) : [p \in 1..Len(w) |-> ToLower(w[p])] = BAD_WORDS[k]

\* position p of x lies in a whole word that is a banned term
InBannedWord(x, p) ==
  \E a \in 1..p : \E b \in p..Len(x) :
    IsWholeWord(x, a, b) /\ IsBannedTerm(SubSeq(x, a, b))

\* some banned term occurs inside positions a..b of x
HoldsBannedTerm(x, a, b) ==
  \E i \in a..b : \E j \in i..b : IsBannedTerm(SubSeq(x, i, j))

\* sanitizeText has returned for a string argument
SanitizedString == san.pc \in {"once", "twice", "reordered"} /\ san.text.t = "str"

\* C11: in the result of sanitizeText on a string, the vowels (either case)
\* of every whole-word occurrence of a banned term (any case) are '*', and
\* every other character is the input's character at that position; the
\* result has the input's length, and an input with no whole-word banned
\* term comes back as it is
C11_MasksVowelsOfWholeWords ==
  SanitizedString =>
    LET x == san.text.s
        y == san.outs[1].s
    IN  /\ san.outs[1].t = "str"
        /\ Len(y) = Len(x)
        /\ \A p \in 1..Len(x) :
             y[p] = IF InBannedWord(x, p) /\ x[p] \in VowelChars THEN "*" ELSE x[p]
        /\ (\A p \in 1..Len(x) : ~InBannedWord(x, p)) => y = x

\* C11 witness: "FUck mother" sanitized: an upper-case vowel of a banned
\* word masked, the upper-case consonant and the word next to it kept
C11_Witness ==
  /\ san.pc = "once"
  /\ san.text = StrV(<<"F", "U", "c", "k", " ", "m", "o", "t", "h", "e", "r">>)
  /\ san.outs[1] = StrV(<<"F", "*", "c", "k", " ", "m", "o", "t", "h", "e", "r">>)

C13_Idempotent ==
  san.pc = "twice" => san.outs[2] = san.outs[1]

\* C13 witness: a text with two banned words sanitized twice, the first
\* call having masked both
C13_Witness ==
  /\ san.pc = "twice"
  /\ san.text = StrV(<<"F", "U", "c", "k", " ", "F", "U", "c", "k">>)
  /\ san.outs[1] = StrV(<<"F", "*", "c", "k", " ", "F", "*", "c", "k">>)
  /\ san.outs[2] = san.outs[1]

\* C14: the loop over the banned terms in another order gives the result
\* of sanitizeText
C14_OrderIndependent ==
  san.pc = "reordered" => san.outs[2] = san.outs[1]

\* C14 witness: "motherFUcker" sanitized with the term "fuck" applied
\* after the terms that contain it
C14_Witness ==
  /\ san.pc = "reordered"
  /\ san.order = Reversed
  /\ san.text.t = "str"
  /\ san.text.s = <<"m", "o", "t", "h", "e", "r", "F", "U", "c", "k", "e", "r">>
  /\ san.outs[2].s = <<"m", "*", "t", "h", "*", "r", "F", "*", "c", "k", "*", "r">>

\* C15: sanitizeText throws for no string and no absent argument, and hands
\* undefined, null and the empty string back as they are
C15_AbsentAndEmptyUnchanged ==
  /\ (san.pc # "start" /\ san.text.t \in {"str", "undef", "null"})
       => san.pc # "threw"
  /\ (san.pc # "start" /\ san.text \in {Undef, Null, StrV(<<>>)})
       => (san.outs # <<>> /\ san.outs[1] = san.text)

\* C15 witness: sanitizeText(null) has returned null
C15_Witness ==
  /\ san.pc = "once"
  /\ san.text = Null
  /\ san.outs = <<Null>>

-----------------------------------------------------------------------------
(* Data store: configuration, request fields, tables                       *)

\* the process environment: whether SUPABASE_URL, SUPABASE_SERVICE_ROLE and
\* OPENAI_API_KEY are set
Envs == [url : BOOLEAN, role : BOOLEAN, key : BOOLEAN]

\* the value of a decimal numeral
RECURSIVE DigitsToNat(_)
DigitsToNat(s) ==
  IF Len(s) = 0 THEN 0
  ELSE 10 * DigitsToNat(SubSeq(s, 1, Len(s) - 1))
         + (CHOOSE d \in 0..9 : Digits[d + 1] = s[Len(s)])

IsNumeral(s) == Len(s) > 0 /\ \A i \in 1..Len(s) : s[i] \in Range(Digits)

\* NaN, as a value
NaN == Val("nan", 0, <<>>)

\* Number(v) for the values the requests carry: a string is trimmed, the
\* empty string is 0, a signed decimal integer is its value, another string
\* is NaN
ToNumber(v) ==
  CASE v.t = "undef" -> NaN
    [] v.t = "null" -> Num(0)
    [] v.t = "num" -> v
    [] v.t = "bool" -> Num(v.n)
    [] v.t = "str" ->
         LET t == Trim(v.s)
         IN  IF t = <<>> THEN Num(0)
             ELSE IF IsNumeral(t) THEN Num(DigitsToNat(t))
             ELSE IF t[1] = "-" /\ IsNumeral(Tail(t)) THEN Num(-DigitsToNat(Tail(t)))
             ELSE IF t[1] = "+" /\ IsNumeral(Tail(t)) THEN Num(DigitsToNat(Tail(t)))
             ELSE NaN
    [] OTHER -> NaN

\* a || b
OrElse(a, b) == IF Truthy(a) THEN a ELSE b

\* the fields of a request body (or query), of a row and of a patch; a field
\* that is not there is undefined
Fields(story_id, client_id, value, title, mood, drama, content, author, handle, text, nickname, likes, dislikes, limit) ==
  [story_id |-> story_id, client_id |-> client_id, value |-> value,
   title |-> title, mood |-> mood, drama |-> drama, content |-> content,
   author |-> author, handle |-> handle, body |-> text, nickname |-> nickname,
   likes |-> likes, dislikes |-> dislikes, limit |-> limit]

NoFields ==
  Fields(Undef, Undef, Undef, Undef, Undef, Undef, Undef, Undef, Undef, Undef,
         Undef, Undef, Undef, Undef)

\* the story the store holds, a story it does not hold, two clients
StoryOne == StrV(<<"s", "1">>)
StoryTwo == StrV(<<"s", "2">>)
ClientA == StrV(<<"c", "a">>)
ClientB == StrV(<<"c", "b">>)

\* a row of a table
Row(table, f) == [table |-> table, f |-> f]

\* the data store: the counters of StoryOne and the rows written to stories,
\* story_comments, profiles and story_reactions
Db(likes, dislikes, rows) == [likes |-> likes, dislikes |-> dislikes, rows |-> rows]

\* the rows of a table that have field k equal to v
Select(rows, table, k, v) ==
  SelectSeq(rows, LAMBDA row : row.table = table /\ row.f[k] = v)

\* a request of the helper to the store
Call(method, table, f) == [method |-> method, table |-> table, f |-> f]

\* whether the store takes the call: profiles has client_id as its primary
\* key, a comment references a story, an insert needs its not-null columns
Accepts(d, call) ==
  CASE call.method = "POST" /\ call.table = "profiles" ->
         Select(d.rows, "profiles", "client_id", call.f.client_id) = <<>>
    [] call.method = "POST" /\ call.table = "story_comments" ->
         call.f.story_id = StoryOne
    [] OTHER -> TRUE

\* the row of StoryOne
StoryRow(d) == [NoFields EXCEPT !.story_id = StoryOne,
                                !.likes = Num(d.likes), !.dislikes = Num(d.dislikes)]

\* the number a patch sets a counter to (a patch without the column keeps it)
Patched(old, v) == IF v.t = "num" THEN v.n ELSE old

\* the rows of d after the upsert of row f on (story_id, client_id)
Upserted(rows, f) ==
  IF \E i \in 1..Len(rows) :
       /\ rows[i].table = "story_reactions"
       /\ rows[i].f.story_id = f.story_id
       /\ rows[i].f.client_id = f.client_id
  THEN [i \in 1..Len(rows) |->
          IF /\ rows[i].table = "story_reactions"
             /\ rows[i].f.story_id = f.story_id
             /\ rows[i].f.client_id = f.client_id
          THEN Row("story_reactions", f) ELSE rows[i]]
  ELSE Append(rows, Row("story_reactions", f))

\* the store after it has carried out the call
Apply(d, call) ==
  CASE call.method = "POST" -> [d EXCEPT !.rows = Append(@, Row(call.table, call.f))]
    [] call.method = "UPSERT" -> [d EXCEPT !.rows = Upserted(@, call.f)]
    [] call.method = "PATCH" /\ call.table = "stories" /\ call.f.story_id = StoryOne ->
         [d EXCEPT !.likes = Patched(@, call.f.likes),
                   !.dislikes = Patched(@, call.f.dislikes)]
    [] OTHER -> d

\* the rows of sequence rows as their fields
FieldsOf(rows) == [i \in 1..Len(rows) |-> rows[i].f]

\* the rows the store returns for the call (Prefer: return=representation)
Result(d, call) ==
  CASE call.method \in {"POST", "UPSERT"} -> <<call.f>>
    [] call.table = "stories" /\ call.f.story_id = StoryOne -> <<StoryRow(Apply(d, call))>>
    [] call.table = "stories" /\ call.f.story_id = StoryTwo -> <<>>
    [] call.table = "stories" -> <<StoryRow(d)>> \o FieldsOf(SelectSeq(d.rows, LAMBDA row : row.table = "stories"))
    [] call.table = "profiles" -> FieldsOf(Select(d.rows, "profiles", "client_id", call.f.client_id))
    [] OTHER -> FieldsOf(Select(d.rows, call.table, "story_id", call.f.story_id))

-----------------------------------------------------------------------------
(* The helper sb and the profile and storyboard handlers                   *)

\* the files: part_001 defines sb without the configuration check (and no
\* handler that calls it); server.js and part_002 define it with the check
Files == {"server.js", "part_001", "part_002"}

ConfigMessage ==
  "Supabase is not configured (SUPABASE_URL / SUPABASE_SERVICE_ROLE missing)."

\* `[Supabase ${res.status}] ${await res.text()}`, for the one refusal modelled
StoreMessage == "[Supabase 409] refused"

\* the message of a rejected fetch
NetworkMessage == "request failed"

\* the message of the TypeError of fetch on the URL `undefined/rest/v1...`
UrlMessage == "Only absolute URLs are supported"

\* the ReferenceError of server.js, which calls sanitizeText and does not
\* define it
UndefinedHelperMessage == "sanitizeText is not defined"

\* the TypeError of sanitizeText on a truthy value that is no string
ReplaceMessage == "out.replace is not a function"

\* sb has the check `if (!SUPABASE_URL || !SUPABASE_SERVICE_ROLE) throw`
Guarded(b) == b # "part_001"

\* sb throws at its configuration check
SbConfigThrows(b, e) == Guarded(b) /\ (~e.url \/ ~e.role)

\* fetch rejects the relative URL built from an undefined SUPABASE_URL
\* before it sends anything
SbUrlThrows(b, e) == ~Guarded(b) /\ ~e.url

\* the endpoints of a file ("sb" is a call of the helper itself)
Endpoints(b) ==
  CASE b = "server.js" -> {"health", "share", "list", "react", "comment", "comments"}
    [] b = "part_002" -> {"health", "profile_set", "profile_get", "share", "list",
                          "react", "comment", "comments"}
    [] OTHER -> {"health"}

\* [1, -1].includes(Number(value))
ValidReaction(value) == ToNumber(value) \in {Num(1), Num(-1)}

\* the validation of share checks the title only
InvalidFirstFieldOnly(b, ep, a) ==
  CASE ep = "profile_set" -> ~Truthy(a.client_id)
    [] ep = "profile_get" -> ~Truthy(a.client_id)
    [] ep = "share" -> ~Truthy(a.title)
    [] ep = "comment" -> ~Truthy(a.story_id)
    [] ep = "comments" -> ~Truthy(a.story_id)
    [] ep = "react" -> ~Truthy(a.story_id)
    [] OTHER -> FALSE

\* the request fails the handler's check of its required fields
Invalid(b, ep, a) ==
  CASE ep = "profile_set" -> ~Truthy(a.client_id) \/ ~Truthy(a.nickname)
    [] ep = "profile_get" -> ~Truthy(a.client_id)
    [] ep = "share" -> ~Truthy(a.title) \/ ~Truthy(a.content)
    [] ep = "comment" -> ~Truthy(a.story_id) \/ ~Truthy(a.body)
    [] ep = "comments" -> ~Truthy(a.story_id)
    [] ep = "react" /\ b = "server.js" -> ~Truthy(a.story_id) \/ ~ValidReaction(a.value)
    [] ep = "react" -> ~Truthy(a.story_id) \/ ~Truthy(a.client_id)
    [] OTHER -> FALSE

\* the message of the 400 answer
ValidationMessage(b, ep) ==
  CASE ep = "profile_set" -> "Missing client_id or nickname"
    [] ep = "profile_get" -> "Missing client_id"
    [] ep = "share" -> "Missing title or content"
    [] ep = "comment" -> "Missing story_id or body"
    [] ep = "comments" -> "Missing story_id"
    [] ep = "react" /\ b = "server.js" -> "Invalid reaction"
    [] ep = "react" -> "Invalid payload (need story_id, client_id)"
    [] OTHER -> ""

Anon == StrV(<<"A", "n", "o", "n">>)

\* the message of the exception thrown while the handler builds its first
\* store call, "" when there is none
PrepMessage(b, ep, a) ==
  CASE ep = "share" /\ b = "server.js" -> UndefinedHelperMessage
    [] ep = "share" /\ (\/ SanitizeThrows(a.title)
                        \/ SanitizeThrows(OrElse(a.mood, StrV(<<>>)))
                        \/ SanitizeThrows(a.content)
                        \/ SanitizeThrows(OrElse(a.author, Anon))) -> ReplaceMessage
    [] ep = "comment" /\ b # "server.js"
         /\ (SanitizeThrows(OrElse(a.handle, Anon)) \/ SanitizeThrows(a.body)) -> ReplaceMessage
    [] ep = "profile_set" /\ SanitizeThrows(a.nickname) -> ReplaceMessage
    [] OTHER -> ""

\* the row share writes: { title, mood, drama: Number(drama) || 3, content,
\* author }, each text sanitized
ShareRow(a) ==
  [NoFields EXCEPT !.title = sanitizeText(a.title),
                   !.mood = sanitizeText(OrElse(a.mood, StrV(<<>>))),
                   !.drama = IF ToNumber(a.drama).t = "num" /\ ToNumber(a.drama).n # 0
                             THEN ToNumber(a.drama) ELSE Num(3),
                   !.content = sanitizeText(a.content),
                   !.author = sanitizeText(OrElse(a.author, Anon))]

\* the row comment writes: part_002 sanitizes handle and body, server.js
\* writes them as they come
CommentRow(b, a) ==
  IF b = "server.js"
  THEN [NoFields EXCEPT !.story_id = a.story_id, !.handle = OrElse(a.handle, Anon),
                        !.body = a.body]
  ELSE [NoFields EXCEPT !.story_id = a.story_id,
                        !.handle = sanitizeText(OrElse(a.handle, Anon)),
                        !.body = sanitizeText(a.body)]

\* the row profile/set writes
ProfileRow(a) ==
  [NoFields EXCEPT !.client_id = a.client_id, !.nickname = sanitizeText(a.nickname)]

\* the patch of the increment handler with both counters swapped
ReactPatchSwapped(seen, value) ==
  IF ToNumber(value) = Num(1)
  THEN [NoFields EXCEPT !.dislikes = Num(OrElse(seen.dislikes, Num(0)).n + 1)]
  ELSE [NoFields EXCEPT !.likes = Num(OrElse(seen.likes, Num(0)).n + 1)]

\* v === 1 ? { likes: (likes || 0) + 1 } : { dislikes: (dislikes || 0) + 1 }
ReactPatch(seen, value) ==
  IF ToNumber(value) = Num(1)
  THEN [NoFields EXCEPT !.likes = Num(OrElse(seen.likes, Num(0)).n + 1)]
  ELSE [NoFields EXCEPT !.dislikes = Num(OrElse(seen.dislikes, Num(0)).n + 1)]

\* parseInt(v, 10): String(v) without its leading white space, an optional
\* sign, then the longest run of digits (DigitPrefix); NaN when there is no
\* digit
ParseInt(v) ==
  LET RECURSIVE DigitPrefix(_)
      DigitPrefix(s) ==
        IF Len(s) = 0 \/ s[1] \notin Range(Digits) THEN <<>>
        ELSE <<s[1]>> \o DigitPrefix(Tail(s))
      t == TrimStart(String(v))
      signed == Len(t) > 0 /\ t[1] \in {"-", "+"}
      digits == DigitPrefix(IF signed THEN Tail(t) ELSE t)
  IN  IF digits = <<>> THEN NaN
      ELSE IF signed /\ t[1] = "-" THEN Num(-DigitsToNat(digits))
      ELSE Num(DigitsToNat(digits))

\* the limit of a list request that names none, and the largest limit
DefaultLimit == 50
LimitCap == 100

\* Math.min(parseInt(req.query.limit || '50', 10) || 50, 100)
ListLimit(limit) ==
  LET n == ParseInt(OrElse(limit, StrV(<<"5", "0">>)))
      m == IF n = NaN \/ n.n = 0 THEN DefaultLimit ELSE n.n
  IN  IF m < LimitCap THEN m ELSE LimitCap

AnyWord == StrV(<<"a", "n", "y">>)

\* the query of the list handler: server.js asks for the 20 newest stories,
\* part_002 adds the filters and the limit of the request.
\*   LikeFilter   the pattern of the title or author filter: the trimmed
\*                parameter when `req.query.title && req.query.title.trim()`
\*                holds, else no filter
\*   MoodFilter   the parameter when it is there and not 'any'
\*   DramaFilter  String(drama).trim() when the parameter is there, not 'any',
\*                and its trimmed form is one of '1'..'5'
ListQuery(b, a) ==
  LET LikeFilter(v) ==
        IF Truthy(v) /\ v.t = "str" /\ Trim(v.s) # <<>> THEN StrV(Trim(v.s)) ELSE Undef
      MoodFilter(v) == IF Truthy(v) /\ v # AnyWord THEN v ELSE Undef
      DramaFilter(v) ==
        IF /\ Truthy(v)
           /\ v # AnyWord
           /\ Trim(String(v)) \in {<<"1">>, <<"2">>, <<"3">>, <<"4">>, <<"5">>}
        THEN StrV(Trim(String(v))) ELSE Undef
  IN  IF b = "server.js" THEN [NoFields EXCEPT !.limit = Num(20)]
      ELSE [NoFields EXCEPT !.title = LikeFilter(a.title),
                            !.author = LikeFilter(a.author),
                            !.mood = MoodFilter(a.mood),
                            !.drama = DramaFilter(a.drama),
                            !.limit = Num(ListLimit(a.limit))]

\* a request (or a call of sb) and how far its handler is:
\*   pc      "idle", "call1".."call3" while the n-th call of sb awaits the
\*           store, "done" after the answer, "returned"/"threw" for a bare
\*           call of sb
\*   sent    the number of requests sent to the store
\*   seen    what the handler keeps of the rows it has read
\*   lone    no other request was in flight while this one was
\*   before  the row of StoryOne when the request arrived
\*   err     the message of the exception thrown, "" when there is none
\*   resp    the answers written, in order
Req(ep, a) ==
  [ep |-> ep, args |-> a, pc |-> "idle", sent |-> 0, seen |-> NoFields,
   lone |-> TRUE, before |-> NoFields, err |-> "", resp |-> <<>>]

InFlight(rq) == rq.pc \in {"call1", "call2", "call3"}

\* an answer: status, the error message, the rows it carries, hasKey
Answer(status, error, rows, hasKey) ==
  [status |-> status, error |-> error, rows |-> rows, hasKey |-> hasKey]

\* res.json(...) or res.status(...).json(...)
Answered(rq, a) == [rq EXCEPT !.pc = "done", !.resp = Append(@, a)]

\* a catch block that answers nothing
ThrownUnanswered(rq, msg) ==
  IF rq.ep = "sb" THEN [rq EXCEPT !.pc = "threw", !.err = msg]
  ELSE [rq EXCEPT !.pc = "done", !.err = msg]

\* an exception with message msg: the handler's catch answers 500 with
\* { error: e.message }; a bare call of sb just throws
Thrown(rq, msg) ==
  IF rq.ep = "sb" THEN [rq EXCEPT !.pc = "threw", !.err = msg]
  ELSE Answered([rq EXCEPT !.err = msg], Answer(500, msg, <<>>, FALSE))

\* the call of sb up to its fetch: the configuration check, then the request
SbEnter(b, e, rq, next) ==
  IF SbConfigThrows(b, e) THEN Thrown(rq, ConfigMessage)
  ELSE IF SbUrlThrows(b, e) THEN Thrown(rq, UrlMessage)
  ELSE [rq EXCEPT !.pc = next, !.sent = @ + 1]

\* the handler from its start up to its first await or its answer
Started(b, e, rq) ==
  IF rq.ep = "health" THEN Answered(rq, Answer(200, "", <<>>, e.key))
  ELSE IF Invalid(b, rq.ep, rq.args)
  THEN Answered(rq, Answer(400, ValidationMessage(b, rq.ep), <<>>, FALSE))
  ELSE IF PrepMessage(b, rq.ep, rq.args) # ""
  THEN Thrown(rq, PrepMessage(b, rq.ep, rq.args))
  ELSE SbEnter(b, e, rq, "call1")

\* the call of sb that awaits the store
CallOf(b, rq) ==
  LET a == rq.args
      byStory == [NoFields EXCEPT !.story_id = a.story_id]
  IN  CASE rq.ep = "profile_set" -> Call("POST", "profiles", ProfileRow(a))
        [] rq.ep = "profile_get" ->
             Call("GET", "profiles", [NoFields EXCEPT !.client_id = a.client_id])
        [] rq.ep = "share" -> Call("POST", "stories", ShareRow(a))
        [] rq.ep = "list" -> Call("GET", "stories", ListQuery(b, a))
        [] rq.ep = "comment" -> Call("POST", "story_comments", CommentRow(b, a))
        [] rq.ep = "comments" -> Call("GET", "story_comments", byStory)
        [] rq.ep = "react" /\ b = "server.js" /\ rq.pc = "call1" ->
             Call("GET", "stories", byStory)
        [] rq.ep = "react" /\ b = "server.js" ->
             Call("PATCH", "stories",
                  [ReactPatch(rq.seen, a.value) EXCEPT !.story_id = a.story_id])
        [] rq.ep = "react" /\ rq.pc = "call1" ->
             Call("UPSERT", "story_reactions",
                  [byStory EXCEPT !.client_id = a.client_id, !.value = Num(1)])
        [] rq.ep = "react" /\ rq.pc = "call2" -> Call("GET", "story_reactions", byStory)
        [] rq.ep = "react" ->
             Call("PATCH", "stories", [byStory EXCEPT !.likes = rq.seen.likes])
        [] OTHER -> Call("GET", "stories", byStory)

\* the handler after sb has returned rows, up to its next await or answer
Continue(b, e, rq, rows) ==
  CASE rq.ep = "sb" -> [rq EXCEPT !.pc = "returned"]
    [] rq.ep = "react" /\ b = "server.js" /\ rq.pc = "call1" ->
         IF Len(rows) = 0
         THEN Answered(rq, Answer(404, "Story not found", <<>>, FALSE))
         ELSE SbEnter(b, e, [rq EXCEPT !.seen = rows[1]], "call2")
    [] rq.ep = "react" /\ b # "server.js" /\ rq.pc = "call1" ->
         SbEnter(b, e, rq, "call2")
    [] rq.ep = "react" /\ b # "server.js" /\ rq.pc = "call2" ->
         SbEnter(b, e, [rq EXCEPT !.seen = [NoFields EXCEPT !.likes = Num(Len(rows))]],
                 "call3")
    [] rq.ep = "profile_get" ->
         Answered(rq, Answer(200, "", IF Len(rows) = 0 THEN <<>> ELSE <<rows[1]>>, FALSE))
    [] OTHER -> Answered(rq, Answer(200, "", rows, FALSE))

-----------------------------------------------------------------------------
(* State machine of the profile and storyboard handlers                    *)

\* most requests in flight together
MaxReqs == 2

\* the values a text field of a request takes
TextVals ==
  {Undef, StrV(<<>>), StrV(<<"o", "k">>), StrV(<<"S", "h", "I", "t">>), Num(5)}

\* mood, author and drama of a share request
ShareExtras ==
  { <<Undef, Undef, Undef>>,
    <<StrV(<<"S", "h", "I", "t">>), StrV(<<"s", "l", "u", "t">>), Num(4)>>,
    <<StrV(<<>>), Num(5), StrV(<<"x">>)>>,
    <<StrV(<<"o", "k">>), StrV(<<>>), StrV(<<" ", "2">>)>> }

\* the values of the field value of a react request
ReactionVals ==
  {Undef, Num(1), Num(-1), Num(0), Num(2), Bool(TRUE), StrV(<<"1">>),
   StrV(<<"-", "1">>), StrV(<<"x">>)}

\* the requests a file serves, as pairs of endpoint and fields; of a list
\* request, LimitVals are the values of the query parameter limit, DramaVals
\* those of the parameter drama, ListExtras its title and mood
RequestsOf(b) ==
  LET of(ep, S) == {<<ep, a>> : a \in S}
      LimitVals ==
        {Undef, StrV(<<>>), StrV(<<"0">>), StrV(<<"7">>), StrV(<<"1", "0", "0">>),
         StrV(<<"1", "0", "1">>), StrV(<<"2", "5", "0">>), StrV(<<"-", "5">>),
         StrV(<<"a", "b", "c">>), StrV(<<"1", "2", "a", "b", "c">>), StrV(<<" ", "8">>)}
      DramaVals ==
        {Undef, StrV(<<"3">>), StrV(<<"5">>), StrV(<<" ", "3">>), StrV(<<"6">>),
         StrV(<<"0">>), AnyWord, StrV(<<"x">>)}
      ListExtras ==
        { <<Undef, Undef>>, <<StrV(<<" ">>), AnyWord>>,
          <<StrV(<<" ", "o", "k">>), StrV(<<"o", "k">>)>> }
      all ==
        of("health", {NoFields})
        \cup of("list",
                IF b = "server.js" THEN {NoFields}
                ELSE {[NoFields EXCEPT !.limit = l, !.drama = d, !.title = x[1],
                                       !.mood = x[2]] :
                        l \in LimitVals, d \in DramaVals, x \in ListExtras})
        \cup of("profile_set",
                {[NoFields EXCEPT !.client_id = c, !.nickname = n] :
                   c \in {Undef, ClientA}, n \in TextVals})
        \cup of("profile_get",
                {[NoFields EXCEPT !.client_id = c] : c \in {Undef, StrV(<<>>), ClientA}})
        \cup of("share",
                {[NoFields EXCEPT !.title = t, !.content = c, !.mood = x[1],
                                  !.author = x[2], !.drama = x[3]] :
                   t \in TextVals, c \in TextVals, x \in ShareExtras})
        \cup of("comment",
                {[NoFields EXCEPT !.story_id = i, !.handle = h, !.body = t] :
                   i \in {Undef, StoryOne, StoryTwo},
                   h \in {Undef, StrV(<<"S", "h", "I", "t">>), Num(5)},
                   t \in TextVals})
        \cup of("comments",
                {[NoFields EXCEPT !.story_id = i] : i \in {Undef, StrV(<<>>), StoryOne}})
        \cup of("react",
                IF b = "server.js"
                THEN {[NoFields EXCEPT !.story_id = i, !.value = v] :
                        i \in {Undef, StoryOne, StoryTwo}, v \in ReactionVals}
                ELSE {[NoFields EXCEPT !.story_id = i, !.client_id = c] :
                        i \in {Undef, StoryOne}, c \in {Undef, ClientA}})
  IN  {q \in all : q[1] \in Endpoints(b)}

\* the store at the start: no rows, or the profile of ClientA
EmptyDb == Db(0, 0, <<>>)
ProfileDb ==
  Db(0, 0, <<Row("profiles", [NoFields EXCEPT !.client_id = ClientA,
                                               !.nickname = StrV(<<"o", "l", "d">>)])>>)

\* no narration request and no sanitizer call
Quiet ==
  /\ pc = "absent"
  /\ body = Undef
  /\ calls = <<>>
  /\ reply = NoReply
  /\ res = <<>>
  /\ san = NoSan

\* one request to a profile or storyboard endpoint (or to health)
StoreInit ==
  /\ build \in Builds
  /\ env \in Envs
  /\ \E q \in RequestsOf(build) :
       /\ reqs = <<Req(q[1], q[2])>>
       /\ db \in IF q[1] \in {"profile_set", "profile_get"}
                 THEN {EmptyDb, ProfileDb} ELSE {EmptyDb}
  /\ Quiet

\* one call of the helper sb
SbInit ==
  /\ build \in Files
  /\ env \in Envs
  /\ \E i \in {StoryOne, StoryTwo} :
       reqs = <<Req("sb", [NoFields EXCEPT !.story_id = i])>>
  /\ db = EmptyDb
  /\ Quiet

\* the react requests of a run: reactions to StoryOne
ReactRequests(b) ==
  IF b = "server.js"
  THEN {Req("react", [NoFields EXCEPT !.story_id = StoryOne, !.value = v]) :
          v \in {Num(1), Num(-1)}}
  ELSE {Req("react", [NoFields EXCEPT !.story_id = StoryOne, !.client_id = c]) :
          c \in {ClientA, ClientB}}

\* up to MaxReqs react requests to a configured store
ReactInit ==
  /\ build \in Builds
  /\ env = NoEnv
  /\ \E n \in 1..MaxReqs : reqs \in [1..n -> ReactRequests(build)]
  /\ db = EmptyDb
  /\ Quiet

\* request r arrives: its handler runs up to its first await or its answer
Arrive(r) ==
  /\ reqs[r].pc = "idle"
  /\ LET busy == \E q \in DOMAIN reqs : q # r /\ InFlight(reqs[q])
     IN  reqs' = [q \in DOMAIN reqs |->
                    IF q = r
                    THEN [Started(build, env, reqs[r])
                            EXCEPT !.lone = ~busy, !.before = StoryRow(db)]
                    ELSE IF InFlight(reqs[q]) THEN [reqs[q] EXCEPT !.lone = FALSE]
                    ELSE reqs[q]]
  /\ UNCHANGED <<build, narration, san, env, db>>

\* the store carries out the call of request r and returns rows; the
\* handler runs on to its next await or its answer
StoreOk(r) ==
  /\ InFlight(reqs[r])
  /\ Accepts(db, CallOf(build, reqs[r]))
  /\ db' = Apply(db, CallOf(build, reqs[r]))
  /\ reqs' = [reqs EXCEPT ![r] = Continue(build, env, @,
                                          Result(db, CallOf(build, reqs[r])))]
  /\ UNCHANGED <<build, narration, san, env>>

\* the store refuses the call with a non-success status: sb throws
StoreNotOk(r) ==
  /\ InFlight(reqs[r])
  /\ reqs' = [reqs EXCEPT ![r] = Thrown(@, StoreMessage)]
  /\ UNCHANGED <<build, narration, san, env, db>>

\* the fetch of sb rejects: sb throws
StoreReject(r) ==
  /\ InFlight(reqs[r])
  /\ reqs' = [reqs EXCEPT ![r] = Thrown(@, NetworkMessage)]
  /\ UNCHANGED <<build, narration, san, env, db>>

StoreNext ==
  \/ \E r \in DOMAIN reqs : Arrive(r)
  \/ \E r \in DOMAIN reqs : StoreOk(r)
  \/ \E r \in DOMAIN reqs : StoreNotOk(r)
  \/ \E r \in DOMAIN reqs : StoreReject(r)

\* one request to a profile or storyboard endpoint
SpecStore == StoreInit /\ [][StoreNext]_vars

\* one call of sb
SpecSb == SbInit /\ [][StoreNext]_vars

\* react requests in flight together
SpecReact == ReactInit /\ [][StoreNext]_vars

\* a request to any endpoint
ServerInit == Init \/ StoreInit \/ ReactInit
ServerNext == Next \/ StoreNext
SpecServer == ServerInit /\ [][ServerNext]_vars

-----------------------------------------------------------------------------
(* Properties of the profile and storyboard handlers                       *)

\* the text columns of a table
TextColumns(table) ==
  CASE table = "stories" -> {"title", "mood", "content", "author"}
    [] table = "story_comments" -> {"handle", "body"}
    [] table = "profiles" -> {"nickname"}
    [] OTHER -> {}

\* the table an endpoint writes a row to
TableOf(ep) ==
  CASE ep = "share" -> "stories"
    [] ep = "comment" -> "story_comments"
    [] ep = "profile_set" -> "profiles"
    [] OTHER -> "none"

\* the value submitted for column k, with the default the handlers give an
\* absent mood, author or handle
Submitted(a, k) ==
  CASE k = "mood" -> OrElse(a.mood, StrV(<<>>))
    [] k \in {"author", "handle"} -> OrElse(a[k], Anon)
    [] OTHER -> a[k]

\* request r has been answered with status
AnsweredWith(r, status) ==
  reqs[r].pc = "done" /\ Len(reqs[r].resp) = 1 /\ reqs[r].resp[1].status = status

\* C16: no text column of a stored row holds a whole-word banned term, and
\* the row a share, comment or profile-set request has written holds in each
\* text column the sanitizer's result on the submitted string (or on the
\* default of an absent mood, author or handle)
C16_StoredTextSanitized ==
  /\ \A i \in 1..Len(db.rows) : \A k \in TextColumns(db.rows[i].table) :
       db.rows[i].f[k].t = "str" => ~HasBannedWord(db.rows[i].f[k].s)
  /\ \A r \in DOMAIN reqs :
       (AnsweredWith(r, 200) /\ TableOf(reqs[r].ep) # "none")
         => \A k \in TextColumns(TableOf(reqs[r].ep)) :
              ~SanitizeThrows(Submitted(reqs[r].args, k))
                => db.rows[Len(db.rows)].f[k] = sanitizeText(Submitted(reqs[r].args, k))

\* the request reaches the helper: it passes the validation and no exception
\* is thrown before the call of sb
ReachesHelper(r) ==
  /\ reqs[r].ep # "health"
  /\ ~Invalid(build, reqs[r].ep, reqs[r].args)
  /\ PrepMessage(build, reqs[r].ep, reqs[r].args) = ""

\* an exception was thrown inside the narration handler
NarrationThrew ==
  \/ SpreadThrows(body)
  \/ reply.kind = "rejected"
  \/ (RepliedOk /\ TrimThrows(Extract(reply.raw)))

\* C17: every request has at most one answer, a handler that has ended has
\* written exactly one, an exception inside a handler ends it with the one
\* answer 500, and a request without its answer can always take a step (its
\* handler runs, or the call it awaits ends)
C17_AnsweredExactlyOnce ==
  /\ Len(res) <= 1
  /\ (pc = "done" <=> Len(res) = 1)
  /\ (pc = "done" /\ NarrationThrew) => res[1].status = 500
  /\ pc \in {"idle", "fetching"} => ENABLED (ContinueSend \/ ContinueThrow \/ FetchReject)
  /\ \A r \in DOMAIN reqs :
       /\ Len(reqs[r].resp) <= 1
       /\ (reqs[r].pc = "done" <=> Len(reqs[r].resp) = 1)
       /\ reqs[r].err # "" =>
            /\ reqs[r].pc = "done"
            /\ reqs[r].resp = <<Answer(500, reqs[r].err, <<>>, FALSE)>>
       /\ reqs[r].pc # "done" =>
            ENABLED (Arrive(r) \/ StoreNotOk(r) \/ StoreReject(r))

\* C17 witness: the share handler of server.js, which calls the helper
\* sanitizeText that the file does not define, has answered 500 once
C17_Witness ==
  /\ build = "server.js"
  /\ Len(reqs) = 1
  /\ reqs[1].ep = "share"
  /\ reqs[1].err = UndefinedHelperMessage
  /\ reqs[1].resp = <<Answer(500, UndefinedHelperMessage, <<>>, FALSE)>>

\* C18: with SUPABASE_URL or SUPABASE_SERVICE_ROLE unset, a call of sb
\* throws the configuration error and nothing is sent to the store; the
\* endpoint that made the call answers 500 with that message; health answers
\* as with a configured store
C18_ConfigMissingFailsFast ==
  \A r \in DOMAIN reqs :
    /\ (/\ ~env.url \/ ~env.role
        /\ reqs[r].pc # "idle"
        /\ reqs[r].ep = "sb" \/ ReachesHelper(r))
         => /\ reqs[r].sent = 0
            /\ reqs[r].err = ConfigMessage
            /\ reqs[r].ep # "sb" => reqs[r].resp = <<Answer(500, ConfigMessage, <<>>, FALSE)>>
    /\ (reqs[r].ep = "health" /\ reqs[r].pc # "idle")
         => reqs[r].resp = <<Answer(200, "", <<>>, env.key)>>

\* a required field of the request is missing (for the increment handler of
\* server.js: story_id is missing or value is not 1 or -1)
MissingField(b, ep, a) ==
  LET missing(k) == a[k] \in {Undef, Null, StrV(<<>>)}
  IN  CASE ep = "share" -> missing("title") \/ missing("content")
        [] ep = "comment" -> missing("story_id") \/ missing("body")
        [] ep = "comments" -> missing("story_id")
        [] ep = "profile_set" -> missing("client_id") \/ missing("nickname")
        [] ep = "profile_get" -> missing("client_id")
        [] ep = "react" /\ b = "server.js" ->
             missing("story_id") \/ ToNumber(a.value) \notin {Num(1), Num(-1)}
        [] ep = "react" -> missing("story_id") \/ missing("client_id")
        [] OTHER -> FALSE

\* C19: a request that misses a required field is answered 400 with a
\* message, and nothing is sent to the store for it
C19_MissingFieldIs400 ==
  \A r \in DOMAIN reqs :
    (reqs[r].pc # "idle" /\ MissingField(build, reqs[r].ep, reqs[r].args))
      => /\ reqs[r].pc = "done"
         /\ Len(reqs[r].resp) = 1
         /\ reqs[r].resp[1].status = 400
         /\ reqs[r].resp[1].error # ""
         /\ reqs[r].sent = 0

\* C19 witness: the increment handler of server.js has answered 400 to a
\* react request for an existing story with the value 2
C19_Witness ==
  /\ build = "server.js"
  /\ Len(reqs) = 1
  /\ reqs[1].ep = "react"
  /\ reqs[1].args.story_id = StoryOne
  /\ reqs[1].args.value = Num(2)
  /\ env.url /\ env.role
  /\ reqs[1].resp = <<Answer(400, "Invalid reaction", <<>>, FALSE)>>
  /\ reqs[1].sent = 0

\* the amount request r adds to a counter: 1 to likes for the value 1, 1 to
\* dislikes for the value -1
Bump(r, counter) ==
  IF (counter = "likes") = (ToNumber(reqs[r].args.value) = Num(1)) THEN 1 ELSE 0

\* C20: in the read-increment-write handler of server.js, a react request
\* that ran with no other request in flight and was answered 200 has raised
\* the chosen counter of the story by exactly 1 and left the other as it was
\* (the lost update of two requests in flight together is C20_Witness)
C20_SequentialReactsCountOnce ==
  build = "server.js" =>
    \A r \in DOMAIN reqs :
      (reqs[r].ep = "react" /\ reqs[r].lone /\ AnsweredWith(r, 200))
        => /\ Len(reqs[r].resp[1].rows) = 1
           /\ reqs[r].resp[1].rows[1].likes
                = Num(reqs[r].before.likes.n + Bump(r, "likes"))
           /\ reqs[r].resp[1].rows[1].dislikes
                = Num(reqs[r].before.dislikes.n + Bump(r, "dislikes"))

\* C20 witness: two like requests in flight together have both read likes 0
\* and both been answered 200, and the story is left with likes 1
C20_Witness ==
  /\ build = "server.js"
  /\ Len(reqs) = 2
  /\ \A r \in 1..2 :
       /\ reqs[r].args.value = Num(1)
       /\ AnsweredWith(r, 200)
       /\ reqs[r].seen.likes = Num(0)
       /\ reqs[r].before.likes = Num(0)
       /\ ~reqs[r].lone
  /\ db.likes = 1
  /\ db.dislikes = 0

\* the clients that have a reaction row for StoryOne
ReactingClients ==
  {db.rows[i].f.client_id :
     i \in {j \in 1..Len(db.rows) :
              /\ db.rows[j].table = "story_reactions"
              /\ db.rows[j].f.story_id = StoryOne}}

\* every react request of the run has been answered 200
AllReactsAnswered ==
  \A r \in DOMAIN reqs : reqs[r].ep = "react" /\ AnsweredWith(r, 200)

\* C21: in the upsert-recount-write handler of part_002, once every react
\* request for the story has been answered 200, the story's likes is the
\* number of distinct clients with a reaction row for it, whatever the
\* interleaving; likes by one client count once
C21_LikesAreDistinctClients ==
  (build = "part_002" /\ AllReactsAnswered)
    => db.likes = Cardinality(ReactingClients)

\* the profile rows of the client of request r
ProfilesOf(r) == Select(db.rows, "profiles", "client_id", reqs[r].args.client_id)

\* C22: the store takes the insert of a profile/set request also when the
\* client_id has a profile already (the call can succeed), and after the
\* answer 200 the client has exactly one profile row, which holds the
\* sanitized new nickname (what a following profile/get returns)
C22_ProfileSetSavesOrUpdates ==
  \A r \in DOMAIN reqs :
    reqs[r].ep = "profile_set" =>
      /\ InFlight(reqs[r]) => Accepts(db, CallOf(build, reqs[r]))
      /\ AnsweredWith(r, 200) =>
           /\ Len(ProfilesOf(r)) = 1
           /\ ProfilesOf(r)[1].f.nickname = sanitizeText(reqs[r].args.nickname)

\* the query parameter limit is absent, zero, or holds no digit
NoUsableLimit(l) ==
  \/ ~Truthy(l)
  \/ l.t = "str" /\ IsNumeral(l.s) /\ DigitsToNat(l.s) = 0
  \/ l.t = "str" /\ \A i \in 1..Len(l.s) : l.s[i] \notin Range(Digits)

\* the limit sent to the store is within 1..100
LimitInRange(sent) == sent.t = "num" /\ sent.n \in 1..100

\* the limit sent is what the claim names for the parameter l: 50 without a
\* usable limit, the value of a numeral in range, 100 for a larger numeral
LimitAsRequested(l, sent) ==
  /\ NoUsableLimit(l) => sent = Num(50)
  /\ (l.t = "str" /\ IsNumeral(l.s) /\ DigitsToNat(l.s) \in 1..100)
       => sent = Num(DigitsToNat(l.s))
  /\ (l.t = "str" /\ IsNumeral(l.s) /\ DigitsToNat(l.s) > 100) => sent = Num(100)

\* a drama filter is sent only for a parameter that is one of '1'..'5'
DramaFilterOnlyForLevels(d, sent) ==
  sent # Undef =>
    (d.t = "str" /\ d.s \in {<<"1">>, <<"2">>, <<"3">>, <<"4">>, <<"5">>} /\ sent = d)

\* C23: the limit the filterable list of part_002 sends to the store is an
\* integer from 1 to 100: 50 when the parameter is absent, zero or not
\* numeric, the requested value when that is in range, 100 when it is above
\* 100; and a drama filter is sent only for a parameter that is exactly one
\* of '1'..'5'
C23_ListLimitInRange ==
  \A r \in DOMAIN reqs :
    (build = "part_002" /\ reqs[r].ep = "list" /\ InFlight(reqs[r]))
      => LET q == CallOf(build, reqs[r]).f
         IN  /\ LimitInRange(q.limit)
             /\ LimitAsRequested(reqs[r].args.limit, q.limit)
             /\ DramaFilterOnlyForLevels(reqs[r].args.drama, q.drama)

====
